---------------------------- MODULE Spec2Model ----------------------------
(***************************************************************************)
(* Model of resources/convert_lm.py: the script reads votable_to_json.xml, *)
(* turns it into a mapping with xmltodict, prints the mapping as indented  *)
(* JSON (encoded with MyEncoder) and writes it as indented JSON (encoded   *)
(* with the stock encoder) to votable_to_json.json.                        *)
(*                                                                         *)
(* Python objects are records [k, s, n, items]: k is the type, s a string  *)
(* payload, n a numeric payload, items the entries of a list, a dict (a    *)
(* sequence of [key, val], in insertion order) or a numpy array.  A text   *)
(* is a sequence of tokens; every blank and every line feed is one token.  *)
(***************************************************************************)
EXTENDS Integers, Sequences, FiniteSets, TLC

VARIABLES
    inFile,       \* votable_to_json.xml: [exists, wellFormed, doc]
    outFile,      \* votable_to_json.json: [exists, text]
    stdout,       \* the texts printed by the current run, in order
    pc,           \* the statement the run is at, or "done"
    xml_block,    \* line 21
    raw_json,     \* line 23
    pretty_json,  \* line 24
    file_json,    \* the argument of file.write, line 30
    inHandle,     \* "none", "open" or "closed": the handle etree.parse reads
    outHandle,    \* "none", "open" or "closed": the handle of the with block
    exitCode,     \* -1 while running, then the exit status of the process
    trace,        \* the steps the current run executed: [step, ok]
    run,          \* number of the current run
    out0,         \* the output file as it was when the current run started
    prevExit,     \* exit status of the previous run, -1 when there was none
    upstream      \* "plain", or the numeric value library code injects

vars == <<inFile, outFile, stdout, pc, xml_block, raw_json, pretty_json,
          file_json, inHandle, outHandle, exitCode, trace, run, out0,
          prevExit, upstream>>

---------------------------------------------------------------------------
(* Bounds *)

MaxKids == 3
MaxRuns == 2

---------------------------------------------------------------------------
(* Python objects *)

V(kind, str, num, its) == [k |-> kind, s |-> str, n |-> num, items |-> its]

NoneV == V("none", "", 0, <<>>)
StrV(str) == V("str", str, 0, <<>>)
IntV(num) == V("int", "", num, <<>>)
FloatV(num) == V("float", "", num, <<>>)
ListV(its) == V("list", "", 0, its)
DictV(its) == V("dict", "", 0, its)
\* numpy.int64: a numpy.integer that is not an int
NpInt(num) == V("np_int", "", num, <<>>)
\* numpy.float64: a numpy.floating that is also a float
NpFloat64(num) == V("np_float64", "", num, <<>>)
\* numpy.float32: a numpy.floating that is not a float
NpFloat32(num) == V("np_float32", "", num, <<>>)
\* numpy.bool_: neither a numpy.integer nor a numpy.floating
NpBool(num) == V("np_bool", "", num, <<>>)
NpArray(its) == V("np_array", "", 0, its)

Keys(d) == {d.items[i].key : i \in 1..Len(d.items)}

DictGet(d, key) ==
    LET i == CHOOSE j \in 1..Len(d.items) : d.items[j].key = key
    IN  d.items[i].val

\* d[key] = val: a new key goes last, a known key keeps its place
DictSet(d, key, val) ==
    IF key \in Keys(d)
    THEN DictV([i \in 1..Len(d.items) |->
                  IF d.items[i].key = key
                  THEN [key |-> key, val |-> val]
                  ELSE d.items[i]])
    ELSE DictV(Append(d.items, [key |-> key, val |-> val]))

---------------------------------------------------------------------------
(* etree.tostring: the document as the markup events the XML parser of     *)
(* xmltodict reads back from it                                            *)

Element(tag, attrs, text, kids) ==
    [tag |-> tag, attrs |-> attrs, text |-> text, kids |-> kids]

Ev(ev, name, attrs, data) ==
    [ev |-> ev, name |-> name, attrs |-> attrs, data |-> data]

RECURSIVE tostring(_)
RECURSIVE tostringAll(_)
tostring(e) ==
    <<Ev("start", e.tag, e.attrs, "")>>
    \o (IF e.text = "" THEN <<>> ELSE <<Ev("chars", "", <<>>, e.text)>>)
    \o tostringAll(e.kids)
    \o <<Ev("end", e.tag, <<>>, "")>>

tostringAll(kids) ==
    IF kids = <<>> THEN <<>>
    ELSE tostring(Head(kids)) \o tostringAll(Tail(kids))

---------------------------------------------------------------------------
(* xmltodict.parse: the handler _DictSAXHandler under the options opts     *)
(* (item_depth 0, cdata_separator "" and no postprocessor throughout)      *)

\* the values of the keyword arguments when none is given
DefaultOptions ==
    [xml_attribs |-> TRUE, attr_prefix |-> "@", cdata_key |-> "#text",
     strip_whitespace |-> TRUE, force_list |-> FALSE]

\* "".join(data), computed by halves
RECURSIVE join(_)
join(data) ==
    IF data = <<>> THEN ""
    ELSE IF Len(data) = 1 THEN data[1]
    ELSE join(SubSeq(data, 1, Len(data) \div 2))
         \o join(SubSeq(data, Len(data) \div 2 + 1, Len(data)))

RECURSIVE lstrip(_)
lstrip(str) ==
    IF str # "" /\ SubSeq(str, 1, 1) \in {" ", "\n"}
    THEN lstrip(SubSeq(str, 2, Len(str))) ELSE str

RECURSIVE rstrip(_)
rstrip(str) ==
    IF str # "" /\ SubSeq(str, Len(str), Len(str)) \in {" ", "\n"}
    THEN rstrip(SubSeq(str, 1, Len(str) - 1)) ELSE str

strip(str) == rstrip(lstrip(str))

\* whether a new key is stored as a one-item list
should_force_list(opts, key, data) == opts.force_list

push_data(opts, item, key, data) ==
    LET it == IF item = NoneV THEN DictV(<<>>) ELSE item
    IN  IF key \in Keys(it)
        THEN LET value == DictGet(it, key)
             IN  IF value.k = "list"
                 THEN DictSet(it, key, ListV(Append(value.items, data)))
                 ELSE DictSet(it, key, ListV(<<value, data>>))
        ELSE IF should_force_list(opts, key, data)
             THEN DictSet(it, key, ListV(<<data>>))
             ELSE DictSet(it, key, data)

RECURSIVE attrs_to_dict(_, _, _)
attrs_to_dict(opts, attrs, acc) ==
    IF attrs = <<>> THEN acc
    ELSE attrs_to_dict(opts, Tail(attrs),
             DictSet(acc, opts.attr_prefix \o Head(attrs).name,
                     StrV(Head(attrs).value)))

Handler0 == [stack |-> <<>>, item |-> NoneV, data |-> <<>>]

startElement(opts, h, e) ==
    LET attrs == IF opts.xml_attribs
                 THEN attrs_to_dict(opts, e.attrs, DictV(<<>>))
                 ELSE DictV(<<>>)
    IN  [stack |-> Append(h.stack, [item |-> h.item, data |-> h.data]),
         item  |-> IF attrs.items = <<>> THEN NoneV ELSE attrs,
         data  |-> <<>>]

characters(opts, h, e) == [h EXCEPT !.data = Append(h.data, e.data)]

\* data is "" where the handler has None: no character data, or only blanks
endElement(opts, h, e) ==
    LET joined == IF h.data = <<>> THEN "" ELSE join(h.data)
        data == IF opts.strip_whitespace THEN strip(joined) ELSE joined
        item == h.item
        top  == h.stack[Len(h.stack)]
        rest == SubSeq(h.stack, 1, Len(h.stack) - 1)
    IN  IF item # NoneV
        THEN LET full == IF data # ""
                         THEN push_data(opts, item, opts.cdata_key, StrV(data))
                         ELSE item
             IN  [stack |-> rest, data |-> top.data,
                  item |-> push_data(opts, top.item, e.name, full)]
        ELSE [stack |-> rest, data |-> top.data,
              item |-> push_data(opts, top.item, e.name,
                                 IF data = "" THEN NoneV ELSE StrV(data))]

RECURSIVE feed(_, _, _)
feed(opts, h, events) ==
    IF events = <<>> THEN h
    ELSE LET e == Head(events)
         IN  feed(opts,
                  CASE e.ev = "start" -> startElement(opts, h, e)
                    [] e.ev = "chars" -> characters(opts, h, e)
                    [] e.ev = "end"   -> endElement(opts, h, e),
                  Tail(events))

xmltodict_parse(events, opts) == feed(opts, Handler0, events).item

---------------------------------------------------------------------------
(* json.dumps(obj, indent=2, cls=...): the encoder json.encoder builds for *)
(* an indent, with the separators "," and ": "                             *)

\* the string with its quotes, backslashes and line feeds escaped,
\* computed by halves
RECURSIVE py_encode_basestring(_)
py_encode_basestring(str) ==
    IF str = "" THEN ""
    ELSE IF Len(str) = 1
    THEN CASE str = "\"" -> "\\\""
           [] str = "\\" -> "\\\\"
           [] str = "\n" -> "\\n"
           [] OTHER     -> str
    ELSE py_encode_basestring(SubSeq(str, 1, Len(str) \div 2))
         \o py_encode_basestring(SubSeq(str, Len(str) \div 2 + 1, Len(str)))

encode_str(str) == "\"" \o py_encode_basestring(str) \o "\""

float_repr(num) == ToString(num) \o ".0"

RECURSIVE tolist(_)
tolist(arr) ==
    ListV([i \in 1..Len(arr.items) |->
             IF arr.items[i].k = "np_array" THEN tolist(arr.items[i])
             ELSE IntV(arr.items[i].n)])

\* json.JSONEncoder.default: raises TypeError
JSONEncoder_default(obj) == [ok |-> FALSE, val |-> NoneV]

\* MyEncoder.default
MyEncoder_default(obj) ==
    IF obj.k = "np_int"
    THEN [ok |-> TRUE, val |-> IntV(obj.n)]
    ELSE IF obj.k \in {"np_float32", "np_float64"}
    THEN [ok |-> TRUE, val |-> FloatV(obj.n)]
    ELSE IF obj.k = "np_array"
    THEN [ok |-> TRUE, val |-> tolist(obj)]
    ELSE JSONEncoder_default(obj)

default(cls, obj) ==
    IF cls = "MyEncoder" THEN MyEncoder_default(obj)
    ELSE JSONEncoder_default(obj)

\* the types the encoder writes without asking default
Native == {"str", "none", "int", "float", "np_float64", "list", "dict"}

RECURSIVE serializable(_, _)
serializable(o, cls) ==
    IF o.k \in {"list"}
    THEN \A i \in 1..Len(o.items) : serializable(o.items[i], cls)
    ELSE IF o.k = "dict"
    THEN \A i \in 1..Len(o.items) : serializable(o.items[i].val, cls)
    ELSE IF o.k \in Native THEN TRUE
    ELSE default(cls, o).ok /\ serializable(default(cls, o).val, cls)

RECURSIVE spaces(_)
spaces(count) == IF count = 0 THEN <<>> ELSE <<" ">> \o spaces(count - 1)

newline_indent(indent, level) == <<"\n">> \o spaces(indent * level)

RECURSIVE iterencode(_, _, _, _)
RECURSIVE iterencode_seq(_, _, _, _, _)
iterencode(o, indent, level, cls) ==
    CASE o.k = "str"  -> <<encode_str(o.s)>>
      [] o.k = "none" -> <<"null">>
      [] o.k = "int"  -> <<ToString(o.n)>>
      [] o.k \in {"float", "np_float64"} -> <<float_repr(o.n)>>
      [] o.k \in {"list", "dict"} ->
            IF o.items = <<>>
            THEN IF o.k = "list" THEN <<"[", "]">> ELSE <<"{", "}">>
            ELSE <<IF o.k = "list" THEN "[" ELSE "{">>
                 \o iterencode_seq(o, 1, indent, level + 1, cls)
                 \o newline_indent(indent, level)
                 \o <<IF o.k = "list" THEN "]" ELSE "}">>
      [] OTHER -> iterencode(default(cls, o).val, indent, level, cls)

\* the entries of a list or dict from the i-th on, one per line
iterencode_seq(o, i, indent, level, cls) ==
    IF i > Len(o.items) THEN <<>>
    ELSE (IF i = 1 THEN <<>> ELSE <<",">>)
         \o newline_indent(indent, level)
         \o (IF o.k = "dict"
             THEN <<encode_str(o.items[i].key), ":", " ">>
                  \o iterencode(o.items[i].val, indent, level, cls)
             ELSE iterencode(o.items[i], indent, level, cls))
         \o iterencode_seq(o, i + 1, indent, level, cls)

\* [ok, text]: ok is FALSE when the call raises TypeError
json_dumps(obj, indent, cls) ==
    IF serializable(obj, cls)
    THEN [ok |-> TRUE, text |-> iterencode(obj, indent, 0, cls)]
    ELSE [ok |-> FALSE, text |-> <<>>]

---------------------------------------------------------------------------
(* json.loads: what a JSON parser reads back from a text                   *)

InvalidV == V("invalid", "", 0, <<>>)

Digits == {ToString(d) : d \in 0..9}

RECURSIVE all_digits(_)
all_digits(str) ==
    str = "" \/ (SubSeq(str, 1, 1) \in Digits
                 /\ all_digits(SubSeq(str, 2, Len(str))))

RECURSIVE parse_int(_, _)
parse_int(str, acc) ==
    IF str = "" THEN acc
    ELSE parse_int(SubSeq(str, 2, Len(str)),
                   10 * acc + (CHOOSE d \in 0..9 :
                                  ToString(d) = SubSeq(str, 1, 1)))

is_int(tok) == tok # "" /\ all_digits(tok)

is_float(tok) ==
    /\ Len(tok) > 2
    /\ SubSeq(tok, Len(tok) - 1, Len(tok)) = ".0"
    /\ all_digits(SubSeq(tok, 1, Len(tok) - 2))

is_string(tok) ==
    Len(tok) >= 2 /\ SubSeq(tok, 1, 1) = "\""
                  /\ SubSeq(tok, Len(tok), Len(tok)) = "\""

\* the number of backslashes that end right before place i
RECURSIVE backslashes_before(_, _)
backslashes_before(str, i) ==
    IF i > 1 /\ SubSeq(str, i - 1, i - 1) = "\\"
    THEN 1 + backslashes_before(str, i - 1) ELSE 0

\* what the character at place i stands for: itself, the character an
\* escape names, or nothing when it is the backslash that starts an escape
unescape_at(str, i) ==
    LET c == SubSeq(str, i, i)
    IN  IF backslashes_before(str, i) % 2 = 1
        THEN (IF c = "n" THEN "\n" ELSE c)
        ELSE IF c = "\\" THEN "" ELSE c

\* the places lo..hi of the string unescaped, computed by halves
RECURSIVE unescape(_, _, _)
unescape(str, lo, hi) ==
    IF lo > hi THEN ""
    ELSE IF lo = hi THEN unescape_at(str, lo)
    ELSE unescape(str, lo, (lo + hi) \div 2)
         \o unescape(str, (lo + hi) \div 2 + 1, hi)

scanstring(tok) == unescape(tok, 2, Len(tok) - 1)

Whitespace == {" ", "\n"}

RECURSIVE skip_ws(_, _)
skip_ws(text, i) ==
    IF i <= Len(text) /\ text[i] \in Whitespace THEN skip_ws(text, i + 1)
    ELSE i

Parsed(val, pos) == [val |-> val, pos |-> pos]

\* each returns [val, pos]: the value read and the place after it; val is
\* InvalidV where the text is not JSON
RECURSIVE scan_once(_, _)
RECURSIVE scan_object(_, _, _)
RECURSIVE scan_array(_, _, _)
scan_once(text, i0) ==
    LET i == skip_ws(text, i0)
    IN  IF i > Len(text) THEN Parsed(InvalidV, i)
        ELSE LET tok == text[i]
             IN  CASE tok = "{" ->
                        IF skip_ws(text, i + 1) <= Len(text)
                           /\ text[skip_ws(text, i + 1)] = "}"
                        THEN Parsed(DictV(<<>>), skip_ws(text, i + 1) + 1)
                        ELSE scan_object(text, i + 1, DictV(<<>>))
                   [] tok = "[" ->
                        IF skip_ws(text, i + 1) <= Len(text)
                           /\ text[skip_ws(text, i + 1)] = "]"
                        THEN Parsed(ListV(<<>>), skip_ws(text, i + 1) + 1)
                        ELSE scan_array(text, i + 1, <<>>)
                   [] tok = "null"   -> Parsed(NoneV, i + 1)
                   [] is_string(tok) -> Parsed(StrV(scanstring(tok)), i + 1)
                   [] is_int(tok)    -> Parsed(IntV(parse_int(tok, 0)), i + 1)
                   [] is_float(tok)  ->
                        Parsed(FloatV(parse_int(
                                   SubSeq(tok, 1, Len(tok) - 2), 0)), i + 1)
                   [] OTHER -> Parsed(InvalidV, i)

\* the members of an object from place i0 on, acc those read so far
scan_object(text, i0, acc) ==
    LET i == skip_ws(text, i0)
        c == skip_ws(text, i + 1)
    IN  IF c > Len(text) \/ ~is_string(text[i]) \/ text[c] # ":"
        THEN Parsed(InvalidV, i)
        ELSE LET r    == scan_once(text, c + 1)
                 j    == skip_ws(text, r.pos)
                 more == DictSet(acc, scanstring(text[i]), r.val)
             IN  IF r.val = InvalidV \/ j > Len(text)
                 THEN Parsed(InvalidV, j)
                 ELSE IF text[j] = "," THEN scan_object(text, j + 1, more)
                 ELSE IF text[j] = "}" THEN Parsed(more, j + 1)
                 ELSE Parsed(InvalidV, j)

\* the elements of an array from place i0 on, acc those read so far
scan_array(text, i0, acc) ==
    LET r == scan_once(text, i0)
        j == skip_ws(text, r.pos)
    IN  IF r.val = InvalidV \/ j > Len(text) THEN Parsed(InvalidV, j)
        ELSE IF text[j] = "," THEN scan_array(text, j + 1, Append(acc, r.val))
        ELSE IF text[j] = "]" THEN Parsed(ListV(Append(acc, r.val)), j + 1)
        ELSE Parsed(InvalidV, j)

\* the value of a text; InvalidV when it is not one JSON value
json_loads(text) ==
    LET r == scan_once(text, 1)
    IN  IF r.val # InvalidV /\ skip_ws(text, r.pos) > Len(text)
        THEN r.val ELSE InvalidV

---------------------------------------------------------------------------
(* The files and the documents the runs start from *)

Attr(name, value) == [name |-> name, value |-> value]

Tags == {"a", "b"}

\* a child of the root: empty, with text, or with an attribute, text and a
\* child of its own that has the name of the attribute
KidElements ==
    {Element(t, <<>>, x, <<>>) : t \in Tags, x \in {"", "x"}}
    \cup {Element("b", <<Attr("a", "v")>>, " y\n",
                  <<Element("a", <<>>, "", <<>>)>>)}

RECURSIVE SeqsUpTo(_, _)
SeqsUpTo(S, len) ==
    IF len = 0 THEN {<<>>}
    ELSE SeqsUpTo(S, len - 1)
         \cup {Append(q, x) : q \in {r \in SeqsUpTo(S, len - 1) :
                                        Len(r) = len - 1}, x \in S}

\* the documents with at most len children under the root
Documents(len) ==
    {Element("r", attrs, "\n", kids) :
        attrs \in {<<>>, <<Attr("a", "q\"")>>},
        kids \in SeqsUpTo(KidElements, len)}

NoDocument == Element("", <<>>, "", <<>>)

InputFiles(len) ==
    {[exists |-> FALSE, wellFormed |-> FALSE, doc |-> NoDocument],
     [exists |-> TRUE, wellFormed |-> FALSE, doc |-> NoDocument]}
    \cup {[exists |-> TRUE, wellFormed |-> TRUE, doc |-> d] :
             d \in Documents(len)}

NoFile == [exists |-> FALSE, text |-> <<>>]

File(text) == [exists |-> TRUE, text |-> text]

\* the output file before the first run: none, or one left by something else
OutputFiles == {NoFile, File(<<"old">>)}

\* what library code may put into the mapping besides what xmltodict makes
NumericValues ==
    {NpInt(1), NpFloat64(1), NpFloat32(2), NpBool(1),
     NpArray(<<NpInt(1), NpInt(2), NpInt(3)>>),
     NpArray(<<NpArray(<<NpInt(1)>>), NpArray(<<NpInt(2), NpInt(3)>>)>>)}

---------------------------------------------------------------------------
(* The run: the module body, one statement after the other *)

\* the output file opened before anything else
OrderOpenFirst ==
    <<"open_out", "open_in", "parse", "convert", "dumps", "print",
      "dumps_file", "write", "close">>

\* the text printed after the file is written
OrderPrintLast ==
    <<"open_in", "parse", "convert", "dumps",
      "open_out", "dumps_file", "write", "close", "print">>

\* the text for the file serialized before the file is opened
OrderDumpsBeforeOpen ==
    <<"open_in", "parse", "convert", "dumps", "print",
      "dumps_file", "open_out", "write", "close">>

Order ==
    <<"open_in", "parse", "convert", "dumps", "print",
      "open_out", "dumps_file", "write", "close">>

IndexOf(step) == CHOOSE i \in 1..Len(Order) : Order[i] = step

NextPc(step) ==
    IF IndexOf(step) = Len(Order) THEN "done" ELSE Order[IndexOf(step) + 1]

\* the output file opened for appending
open_mode_append == "a"

\* the mode the output file is opened in
open_mode == "w"

\* xmltodict.parse(..., attr_prefix='')
ParseOptionsNoPrefix == [DefaultOptions EXCEPT !.attr_prefix = ""]

\* xmltodict.parse(..., force_list=True)
ParseOptionsForceList == [DefaultOptions EXCEPT !.force_list = TRUE]

\* the keyword arguments of the call of xmltodict.parse: none
ParseOptions == DefaultOptions

\* xmltodict.parse(etree.tostring(xml_block))
to_raw_json(doc) == xmltodict_parse(tostring(doc), ParseOptions)

\* json.dumps(raw_json, indent=2, cls=MyEncoder)
pretty_dumps(obj) == json_dumps(obj, 2, "MyEncoder")

\* json.dumps(pretty_json, indent=2): the text serialized a second time
file_dumps_pretty(obj) ==
    json_dumps(StrV(join(json_dumps(obj, 2, "MyEncoder").text)),
               2, "JSONEncoder")

\* json.dumps(raw_json, indent=2)
file_dumps(obj) == json_dumps(obj, 2, "JSONEncoder")

\* a file opened without a with block
no_with_exit(handle) == handle

\* what leaving the with block does to the handle it holds
with_exit(handle) == IF handle = "open" THEN "closed" ELSE handle

\* what the handle etree.parse reads from is when the call is over
parse_exit(handle) == "closed"

\* an exception caught and ignored: the run goes on
after_raise_ignored(step) ==
    IF Order[Len(Order)] = step THEN "done"
    ELSE Order[(CHOOSE i \in 1..Len(Order) : Order[i] = step) + 1]

\* the statement after an exception nothing catches: there is none
after_raise(step) == "done"

Completed(step) ==
    /\ pc' = NextPc(step)
    /\ exitCode' = IF NextPc(step) = "done" THEN 0 ELSE exitCode
    /\ trace' = Append(trace, [step |-> step, ok |-> TRUE])

\* an exception: nothing catches it, the with block (if entered) is left,
\* the interpreter prints the traceback and exits with status 1
Raise(step) ==
    /\ pc' = after_raise(step)
    /\ exitCode' = IF after_raise(step) = "done" THEN 1 ELSE exitCode
    /\ trace' = Append(trace, [step |-> step, ok |-> FALSE])
    /\ outHandle' = with_exit(outHandle)

Init ==
    /\ inFile \in InputFiles(MaxKids)
    /\ outFile \in OutputFiles
    /\ out0 = outFile
    /\ stdout = <<>>
    /\ pc = Head(Order)
    /\ xml_block = NoDocument
    /\ raw_json = NoneV
    /\ pretty_json = <<>>
    /\ file_json = <<>>
    /\ inHandle = "none"
    /\ outHandle = "none"
    /\ exitCode = -1
    /\ trace = <<>>
    /\ run = 1
    /\ prevExit = -1
    /\ upstream = NoneV

\* etree.parse, first half: the file is opened for reading
OpenInput ==
    /\ pc = "open_in"
    /\ IF inFile.exists
       THEN /\ inHandle' = "open"
            /\ Completed("open_in")
            /\ UNCHANGED outHandle
       ELSE /\ Raise("open_in")
            /\ UNCHANGED inHandle
    /\ UNCHANGED <<inFile, outFile, stdout, xml_block, raw_json, pretty_json,
                   file_json, run, out0, prevExit, upstream>>

\* etree.parse, second half: the file is read, parsed and closed
ParseInput ==
    /\ pc = "parse"
    /\ inHandle' = parse_exit(inHandle)
    /\ IF inFile.wellFormed
       THEN /\ xml_block' = inFile.doc
            /\ Completed("parse")
            /\ UNCHANGED outHandle
       ELSE /\ Raise("parse")
            /\ UNCHANGED xml_block
    /\ UNCHANGED <<inFile, outFile, stdout, raw_json, pretty_json,
                   file_json, run, out0, prevExit, upstream>>

\* raw_json = xmltodict.parse(etree.tostring(xml_block)); where library code
\* injects a numeric value, the mapping holds it under a key of its own
Convert ==
    /\ pc = "convert"
    /\ raw_json' =
          LET parsed == to_raw_json(xml_block)
          IN  IF upstream = NoneV THEN parsed
              ELSE DictSet(parsed, "n", upstream)
    /\ Completed("convert")
    /\ UNCHANGED <<inFile, outFile, stdout, xml_block, pretty_json,
                   file_json, inHandle, outHandle, run, out0, prevExit,
                   upstream>>

\* pretty_json = json.dumps(raw_json, indent=2, cls=MyEncoder)
SerializePretty ==
    /\ pc = "dumps"
    /\ LET r == pretty_dumps(raw_json)
       IN  IF r.ok
           THEN /\ pretty_json' = r.text
                /\ Completed("dumps")
                /\ UNCHANGED outHandle
           ELSE /\ Raise("dumps")
                /\ UNCHANGED pretty_json
    /\ UNCHANGED <<inFile, outFile, stdout, xml_block, raw_json, file_json,
                   inHandle, run, out0, prevExit, upstream>>

\* print(pretty_json): the text and a line feed, or an error of the stream
PrintStdout ==
    /\ pc = "print"
    /\ \E ok \in BOOLEAN :
          IF ok
          THEN /\ stdout' = Append(stdout, pretty_json \o <<"\n">>)
               /\ Completed("print")
               /\ UNCHANGED outHandle
          ELSE /\ Raise("print")
               /\ UNCHANGED stdout
    /\ UNCHANGED <<inFile, outFile, xml_block, raw_json, pretty_json,
                   file_json, inHandle, run, out0, prevExit, upstream>>

\* open(..., 'w'): creates or truncates the file, or fails and leaves it
OpenOutput ==
    /\ pc = "open_out"
    /\ \E ok \in BOOLEAN :
          IF ok
          THEN /\ outFile' = File(IF open_mode = "w" THEN <<>>
                                  ELSE outFile.text)
               /\ outHandle' = "open"
               /\ Completed("open_out")
          ELSE /\ Raise("open_out")
               /\ UNCHANGED outFile
    /\ UNCHANGED <<inFile, stdout, xml_block, raw_json, pretty_json,
                   file_json, inHandle, run, out0, prevExit, upstream>>

\* json.dumps(raw_json, indent=2), the argument of file.write
SerializeFile ==
    /\ pc = "dumps_file"
    /\ LET r == file_dumps(raw_json)
       IN  IF r.ok
           THEN /\ file_json' = r.text
                /\ Completed("dumps_file")
                /\ UNCHANGED outHandle
           ELSE /\ Raise("dumps_file")
                /\ UNCHANGED file_json
    /\ UNCHANGED <<inFile, outFile, stdout, xml_block, raw_json,
                   pretty_json, inHandle, run, out0, prevExit, upstream>>

\* file.write(...): the whole text, or an error after none or half of it
WriteFile ==
    /\ pc = "write"
    /\ \/ /\ outFile' = File(outFile.text \o file_json)
          /\ Completed("write")
          /\ UNCHANGED outHandle
       \/ /\ \E written \in {0, Len(file_json) \div 2} :
                outFile' = File(outFile.text
                                \o SubSeq(file_json, 1, written))
          /\ Raise("write")
    /\ UNCHANGED <<inFile, stdout, xml_block, raw_json, pretty_json,
                   file_json, inHandle, run, out0, prevExit, upstream>>

\* the end of the with block
CloseOutput ==
    /\ pc = "close"
    /\ outHandle' = with_exit(outHandle)
    /\ Completed("close")
    /\ UNCHANGED <<inFile, outFile, stdout, xml_block, raw_json,
                   pretty_json, file_json, inHandle, run, out0, prevExit,
                   upstream>>

\* the script is started again, on the files as the last run left them
Rerun ==
    /\ pc = "done"
    /\ run < MaxRuns
    /\ run' = run + 1
    /\ out0' = outFile
    /\ prevExit' = exitCode
    /\ stdout' = <<>>
    /\ pc' = Head(Order)
    /\ xml_block' = NoDocument
    /\ raw_json' = NoneV
    /\ pretty_json' = <<>>
    /\ file_json' = <<>>
    /\ inHandle' = "none"
    /\ outHandle' = "none"
    /\ exitCode' = -1
    /\ trace' = <<>>
    /\ UNCHANGED <<inFile, outFile, upstream>>

Next ==
    \/ OpenInput
    \/ ParseInput
    \/ Convert
    \/ SerializePretty
    \/ PrintStdout
    \/ OpenOutput
    \/ SerializeFile
    \/ WriteFile
    \/ CloseOutput
    \/ Rerun

Spec == Init /\ [][Next]_vars

\* the runs in which library code injects a numeric value into the mapping
InitNumeric ==
    /\ inFile \in InputFiles(1)
    /\ outFile \in OutputFiles
    /\ out0 = outFile
    /\ stdout = <<>>
    /\ pc = Head(Order)
    /\ xml_block = NoDocument
    /\ raw_json = NoneV
    /\ pretty_json = <<>>
    /\ file_json = <<>>
    /\ inHandle = "none"
    /\ outHandle = "none"
    /\ exitCode = -1
    /\ trace = <<>>
    /\ run = 1
    /\ prevExit = -1
    /\ upstream \in NumericValues

SpecNumeric == InitNumeric /\ [][Next]_vars

\* every run: what xmltodict makes, and what library code may add to it
SpecAll == (Init \/ InitNumeric) /\ [][Next]_vars

---------------------------------------------------------------------------
(* Properties *)

Done(step) == \E i \in 1..Len(trace) : trace[i] = [step |-> step, ok |-> TRUE]

Failed(step) ==
    trace # <<>> /\ trace[Len(trace)] = [step |-> step, ok |-> FALSE]

Position(step) == CHOOSE i \in 1..Len(trace) : trace[i].step = step

\* C1: whenever a run has printed the text and written the file, the
\* printed text and the text of the file are both JSON and parse to equal
\* values.
C1_ConsoleFileAgree ==
    (Len(stdout) = 1 /\ Done("write"))
        => /\ json_loads(stdout[1]) # InvalidV
           /\ json_loads(stdout[1]) = json_loads(outFile.text)

\* a run that printed and wrote a mapping holding a list, the two texts
\* differing (the printed one ends with a line feed)
C1_Witness ==
    /\ Len(stdout) = 1 /\ Done("write") /\ pc = "done"
    /\ stdout[1] # outFile.text
    /\ \E i \in 1..Len(outFile.text) : outFile.text[i] = "["

Whitelisted(obj) == obj.k \in {"np_int", "np_float32", "np_float64", "np_array"}

\* the plain value a whitelisted numeric value is to be written as
RECURSIVE PlainOf(_)
PlainOf(obj) ==
    CASE obj.k = "np_int" -> IntV(obj.n)
      [] obj.k \in {"np_float32", "np_float64"} -> FloatV(obj.n)
      [] obj.k = "np_array" ->
            ListV([i \in 1..Len(obj.items) |-> PlainOf(obj.items[i])])
      [] OTHER -> obj

C3_MissingInput ==
    ~inFile.exists =>
        /\ outFile = out0
        /\ pc = "done" => exitCode > 0

\* a run without input file that has ended, an output file lying there
C3_Witness ==
    ~inFile.exists /\ pc = "done" /\ out0.exists /\ Failed("open_in")

StatementOrder ==
    <<"open_in", "parse", "convert", "dumps", "print",
      "open_out", "dumps_file", "write", "close">>

\* C4: the steps of a run are executed in the one order, each at most
\* once; a step that fails is the last one executed and the status is then
\* not 0; the status is 0 exactly when every step completed.
C4_FailFast ==
    /\ Len(trace) <= Len(StatementOrder)
    /\ \A i \in 1..Len(trace) :
          /\ trace[i].step = StatementOrder[i]
          /\ i < Len(trace) => trace[i].ok
    /\ (trace # <<>> /\ ~trace[Len(trace)].ok) => (pc = "done" /\ exitCode > 0)
    /\ pc = "done" <=> exitCode >= 0
    /\ exitCode = 0 <=>
          (Len(trace) = Len(StatementOrder) /\ \A i \in 1..Len(trace) : trace[i].ok)

\* a run ended by a failure of the print, nothing executed after it
C4_Witness ==
    /\ pc = "done" /\ exitCode = 1 /\ Failed("print")
    /\ outHandle = "none" /\ outFile = out0

\* C5: a run prints at most once; the output file is not opened and not
\* changed before the print has completed; a run that succeeds has printed
\* exactly once, before it wrote the file.
C5_PrintOnceBeforeWrite ==
    /\ Len(stdout) <= 1
    /\ (outHandle # "none" \/ outFile # out0) => (Len(stdout) = 1 /\ Done("print"))
    /\ (pc = "done" /\ exitCode = 0) =>
          /\ Len(stdout) = 1
          /\ Done("print") /\ Done("open_out") /\ Done("write")
          /\ Position("print") < Position("open_out")
          /\ Position("print") < Position("write")

\* a run that succeeded
C5_Witness ==
    pc = "done" /\ exitCode = 0 /\ Len(stdout) = 1 /\ outFile.text # <<>>

\* C6: when a run has ended, however it ended, no file handle is open.
C6_HandlesClosed ==
    pc = "done" => (inHandle # "open" /\ outHandle # "open")

\* a run ended by a failure of the serialization inside the with block,
\* both handles having been opened
C6_Witness ==
    /\ pc = "done" /\ Failed("dumps_file")
    /\ inHandle = "closed" /\ outHandle = "closed"

\* C7: a run that succeeds after a run that succeeded leaves the output
\* file exactly as it found it: the second run writes the same text again.
C7_Idempotent ==
    (run > 1 /\ pc = "done" /\ exitCode = 0 /\ prevExit = 0) => outFile = out0

\* the second of two runs that succeeded
C7_Witness ==
    /\ run = 2 /\ pc = "done" /\ exitCode = 0 /\ prevExit = 0
    /\ outFile.text # <<>>

---------------------------------------------------------------------------
(* Properties of the mapping *)

RECURSIVE WithTag(_, _)
WithTag(kids, tag) ==
    IF kids = <<>> THEN <<>>
    ELSE (IF Head(kids).tag = tag THEN <<Head(kids)>> ELSE <<>>)
         \o WithTag(Tail(kids), tag)

RECURSIVE Descendants(_)
Descendants(e) ==
    {e} \cup UNION {Descendants(e.kids[i]) : i \in 1..Len(e.kids)}

\* what the script makes of an element taken alone
Standalone(e) == DictGet(to_raw_json(e), e.tag)

\* what the script made of an element: of the root the value raw_json
\* holds for it, of another element the value made of it alone
ValueOf(e) == IF e = xml_block THEN DictGet(raw_json, e.tag) ELSE Standalone(e)

IsListOf(val, kids) ==
    /\ val.k = "list"
    /\ Len(val.items) = Len(kids)
    /\ \A i \in 1..Len(kids) : val.items[i] = Standalone(kids[i])

\* the conversion has just been made, of a document alone
Converted == pc = NextPc("convert") /\ Done("convert") /\ upstream = NoneV

\* C8 as stated: under every parent the N >= 1 children of one tag are a
\* list of length N, in source order, under the key of the tag.
C8_SiblingsAlwaysList ==
    Converted =>
        \A e \in Descendants(xml_block) :
            \A i \in 1..Len(e.kids) :
                LET tag == e.kids[i].tag
                IN  /\ ValueOf(e).k = "dict"
                    /\ tag \in Keys(ValueOf(e))
                    /\ IsListOf(DictGet(ValueOf(e), tag), WithTag(e.kids, tag))

\* C8 as amended: under every parent the N >= 2 children of one tag are a
\* list of length N, in source order, under the key of the tag; a single
\* child of its tag is under that key itself, not in a list.
C8_RepeatedSiblingsList ==
    Converted =>
        \A e \in Descendants(xml_block) :
            \A i \in 1..Len(e.kids) :
                LET tag  == e.kids[i].tag
                    same == WithTag(e.kids, tag)
                IN  /\ ValueOf(e).k = "dict"
                    /\ tag \in Keys(ValueOf(e))
                    /\ IF Len(same) >= 2
                       THEN IsListOf(DictGet(ValueOf(e), tag), same)
                       ELSE /\ DictGet(ValueOf(e), tag) = Standalone(same[1])
                            /\ DictGet(ValueOf(e), tag).k # "list"

\* a root whose children are b, a, b, the two b different
C8_Witness ==
    /\ Converted
    /\ Len(xml_block.kids) = 3
    /\ xml_block.kids[1].tag = "b" /\ xml_block.kids[2].tag = "a"
    /\ xml_block.kids[3].tag = "b" /\ xml_block.kids[1] # xml_block.kids[3]

\* C9: an element with an attribute and a child of the same name has, in
\* its mapping, the attribute under the prefixed key and the child under
\* the plain key, each with its own value.
C9_AttributeAndChild ==
    Converted =>
        \A e \in Descendants(xml_block) :
            \A a \in 1..Len(e.attrs) :
                LET name == e.attrs[a].name
                    same == WithTag(e.kids, name)
                IN  same # <<>> =>
                      /\ ValueOf(e).k = "dict"
                      /\ {"@" \o name, name} \subseteq Keys(ValueOf(e))
                      /\ "@" \o name # name
                      /\ DictGet(ValueOf(e), "@" \o name) = StrV(e.attrs[a].value)
                      /\ IF Len(same) = 1
                         THEN DictGet(ValueOf(e), name) = Standalone(same[1])
                         ELSE IsListOf(DictGet(ValueOf(e), name), same)

\* a root with the attribute a and a child a
C9_Witness ==
    /\ Converted
    /\ xml_block.attrs # <<>> /\ xml_block.attrs[1].name = "a"
    /\ WithTag(xml_block.kids, "a") # <<>>

\* C10: the file is open and empty when the text for it is serialized;
\* when that serialization fails the run ends, after the print, with the
\* output file existing and empty.
C10_EmptyFileOnDumpsFailure ==
    /\ pc = "dumps_file" => (outHandle = "open" /\ outFile = File(<<>>))
    /\ Failed("dumps_file") =>
          /\ pc = "done" /\ exitCode > 0
          /\ Len(stdout) = 1 /\ Done("print")
          /\ outFile = File(<<>>)

\* such a run, the output file having held a text before
C10_Witness ==
    /\ Failed("dumps_file") /\ pc = "done"
    /\ out0 = File(<<"old">>) /\ outFile = File(<<>>)

=============================================================================
